---- MODULE Spec2Model ----
(***************************************************************************)
(* S3Download task: TaskOperations (DownloadTaskOperations.ts).            *)
(*                                                                         *)
(* Strings are sequences of one-character strings, so that substring,      *)
(* endsWith, path.basename, path.join and glob matching are computed       *)
(* character by character as the code and its libraries compute them.      *)
(* The empty sequence stands for the empty string and for null/undefined   *)
(* (all three are falsy where the code tests them).                        *)
(***************************************************************************)
EXTENDS Naturals, Sequences, FiniteSets, TLC

VARIABLES
    bucket,        \* keys of the bucket, in the service's listing order
    sourceFolder,  \* taskParameters.sourceFolder
    globExpressions, \* taskParameters.globExpressions
    flattenFolders,  \* taskParameters.flattenFolders
    overwrite,     \* taskParameters.overwrite
    initialDisk,   \* local files when the run starts
    disk,          \* local files: path -> contents
    dirs,          \* local directories
    pc,            \* position of the control flow of execute()
    headResult,    \* outcome of the headBucket request
    nextToken,     \* fetchAllObjectKeys: nextToken
    allKeys,       \* fetchAllObjectKeys: allKeys / downloadFiles: allKeys
    markers,       \* Marker of every listObjects request issued, in order
    pagesReturned, \* Contents of every listObjects response received, in order
    listFailed,    \* a listObjects request has thrown
    gi,            \* downloadFiles: index of the current glob
    matchedKeys,   \* downloadFiles: matchedKeys of the current glob
    tested,        \* matchObjectKeys: every keyToTest handed to the matcher
    mi,            \* downloadFiles: index of the current matched key
    allDownloads,  \* downloadFiles: allDownloads, one record per downloadFile call
    faults,        \* stream errors injected so far
    result,        \* outcome of execute()
    roleName,      \* SdkUtils.roleArnFromName: roleName
    rolePc,        \* position of the control flow of roleArnFromName
    getRoleRequests, \* RoleName of every getRole request issued, in order
    getRoleResponse, \* outcome of the getRole request
    roleResult     \* outcome of roleArnFromName

s3Vars == <<bucket, sourceFolder, globExpressions, flattenFolders, overwrite,
            initialDisk, disk, dirs, pc, headResult, nextToken, allKeys, markers,
            pagesReturned, listFailed, gi, matchedKeys, tested, mi,
            allDownloads, faults, result>>

iamVars == <<roleName, rolePc, getRoleRequests, getRoleResponse, roleResult>>

vars == <<s3Vars, iamVars>>

-----------------------------------------------------------------------------
(* Bounds of the model *)

\* keys per listObjects response (MaxKeys of the service, 1000 in production)
PageSize == 2
\* stream errors (source or sink) the environment raises in one run
MaxFaults == 1
\* length of the role names handed to roleArnFromName
MaxRoleNameLen == 5

-----------------------------------------------------------------------------
(* String helpers: String.prototype.substring / startsWith / endsWith *)

Min(a, b) == IF a <= b THEN a ELSE b

\* s.substring(start): the characters from index start (0-based) to the end
Substring(s, start) ==
    IF start >= Len(s) THEN <<>> ELSE SubSeq(s, start + 1, Len(s))

StartsWith(s, p) ==
    /\ Len(p) <= Len(s)
    /\ SubSeq(s, 1, Len(p)) = p

EndsWith(s, suf) ==
    /\ Len(suf) <= Len(s)
    /\ Substring(s, Len(s) - Len(suf)) = suf

\* s.split("/")
RECURSIVE Split(_)
Split(s) ==
    IF \A i \in 1..Len(s) : s[i] # "/" THEN <<s>>
    ELSE LET i == CHOOSE j \in 1..Len(s) :
                      s[j] = "/" /\ \A k \in 1..(j - 1) : s[k] # "/"
         IN  <<SubSeq(s, 1, i - 1)>> \o Split(Substring(s, i))

\* segs.join("/")
RECURSIVE JoinSegs(_)
JoinSegs(segs) ==
    IF segs = <<>> THEN <<>>
    ELSE IF Len(segs) = 1 THEN segs[1]
    ELSE segs[1] \o <<"/">> \o JoinSegs(Tail(segs))

-----------------------------------------------------------------------------
(* Node's path module (posix) *)

\* normalizeString: drop empty and "." segments, resolve ".." against the
\* segments kept so far
RECURSIVE NormalizeSegs(_, _, _)
NormalizeSegs(segs, kept, isAbs) ==
    IF segs = <<>> THEN kept
    ELSE LET s == Head(segs) IN
         IF s = <<>> \/ s = <<".">> THEN NormalizeSegs(Tail(segs), kept, isAbs)
         ELSE IF s = <<".", ".">> THEN
             IF kept # <<>> /\ kept[Len(kept)] # <<".", ".">>
             THEN NormalizeSegs(Tail(segs), SubSeq(kept, 1, Len(kept) - 1), isAbs)
             ELSE IF isAbs THEN NormalizeSegs(Tail(segs), kept, isAbs)
             ELSE NormalizeSegs(Tail(segs), Append(kept, s), isAbs)
         ELSE NormalizeSegs(Tail(segs), Append(kept, s), isAbs)

\* path.normalize
PathNormalize(p) ==
    IF p = <<>> THEN <<".">>
    ELSE LET isAbs    == p[1] = "/"
             trailing == p[Len(p)] = "/"
             body     == JoinSegs(NormalizeSegs(Split(p), <<>>, isAbs))
             body2    == IF body = <<>> /\ ~isAbs THEN <<".">> ELSE body
             body3    == IF body2 # <<>> /\ trailing THEN body2 \o <<"/">> ELSE body2
         IN  IF isAbs THEN <<"/">> \o body3 ELSE body3

\* path.join(a, b): the non-empty arguments joined by "/", then normalized
PathJoin(a, b) ==
    IF a = <<>> /\ b = <<>> THEN <<".">>
    ELSE IF a = <<>> THEN PathNormalize(b)
    ELSE IF b = <<>> THEN PathNormalize(a)
    ELSE PathNormalize(a \o <<"/">> \o b)

\* p without its trailing separators
RECURSIVE StripTrailingSep(_)
StripTrailingSep(p) ==
    IF p # <<>> /\ p[Len(p)] = "/"
    THEN StripTrailingSep(SubSeq(p, 1, Len(p) - 1))
    ELSE p

\* path.basename(p): the last segment, trailing separators ignored
PathBasename(p) ==
    LET segs == Split(StripTrailingSep(p))
    IN  segs[Len(segs)]

\* path.dirname(p)
PathDirname(p) ==
    LET q    == StripTrailingSep(p)
        segs == Split(q)
    IN  IF q = <<>> THEN (IF p = <<>> THEN <<".">> ELSE <<"/">>)
        ELSE IF Len(segs) = 1 THEN <<".">>
        ELSE LET d == StripTrailingSep(JoinSegs(SubSeq(segs, 1, Len(segs) - 1)))
             IN  IF d = <<>> THEN <<"/">> ELSE d

\* tl.mkdirP(dir): dir and every missing ancestor
MkdirP(dir) ==
    LET segs == Split(dir)
    IN  { JoinSegs(SubSeq(segs, 1, n)) : n \in 1..Len(segs) } \ {<<>>}

-----------------------------------------------------------------------------
(* minimatch (default options), for patterns made of literal characters,   *)
(* "*", "?" and "**"                                                       *)

\* split on runs of "/" (the regular expression /\/+/)
SlashSplit(s) ==
    LET segs == Split(s)
        keep == { i \in 1..Len(segs) : segs[i] # <<>> \/ i = 1 \/ i = Len(segs) }
        F[i \in 0..Len(segs)] ==
            IF i = 0 THEN <<>>
            ELSE IF i \in keep THEN Append(F[i - 1], segs[i]) ELSE F[i - 1]
    IN  F[Len(segs)]

HasMagic(p) == \E i \in 1..Len(p) : p[i] \in {"*", "?"}

\* the regular expression of one pattern segment: "*" is [^/]*?, "?" is [^/]
RECURSIVE Wild(_, _)
Wild(f, p) ==
    IF p = <<>> THEN f = <<>>
    ELSE IF p[1] = "*" THEN
        \/ Wild(f, Tail(p))
        \/ f # <<>> /\ Wild(Tail(f), p)
    ELSE IF p[1] = "?" THEN f # <<>> /\ Wild(Tail(f), Tail(p))
    ELSE f # <<>> /\ f[1] = p[1] /\ Wild(Tail(f), Tail(p))

\* one file segment against one pattern segment: a segment without magic is
\* compared as a string; one with magic must be non-empty ("(?=.)") and, when
\* the pattern starts with magic, must not start with a dot ("(?!\.)")
MatchSegment(f, p) ==
    IF ~HasMagic(p) THEN f = p
    ELSE /\ f # <<>>
         /\ (p[1] \in {"*", "?"} => f[1] # ".")
         /\ Wild(f, p)

DotSegment(f) == f # <<>> /\ f[1] = "."

\* Minimatch.prototype.matchOne, partial = false
RECURSIVE MatchOne(_, _)
MatchOne(file, pattern) ==
    IF file = <<>> \/ pattern = <<>> THEN
        IF file = <<>> /\ pattern = <<>> THEN TRUE
        ELSE IF file = <<>> THEN FALSE
        ELSE Len(file) = 1 /\ file[1] = <<>>
    ELSE IF pattern[1] = <<"*", "*">> THEN
        IF Len(pattern) = 1
        THEN \A i \in 1..Len(file) : ~DotSegment(file[i])
        ELSE \E fr \in 0..(Len(file) - 1) :
                /\ \A j \in 1..fr : ~DotSegment(file[j])
                /\ MatchOne(Substring(file, fr), Tail(pattern))
    ELSE /\ MatchSegment(file[1], pattern[1])
         /\ MatchOne(Tail(file), Tail(pattern))

\* new mm.Minimatch(glob).match(f)
Minimatch(f, glob) ==
    IF glob = <<>> THEN f = <<>>
    ELSE MatchOne(SlashSplit(f), SlashSplit(glob))

-----------------------------------------------------------------------------
(* The strings of the model *)

null == <<>>

targetFolder == <<"t", "a", "r", "g", "e", "t">>

FolderMarker == <<"_", "$", "f", "o", "l", "d", "e", "r", "$">>

KeyDocsMarker == <<"d", "o", "c", "s", "/", "_", "$", "f", "o", "l", "d", "e", "r", "$">>
KeyDocsA == <<"d", "o", "c", "s", "/", "a", ".", "t", "x", "t">>
KeyDocsB == <<"d", "o", "c", "s", "/", "b", ".", "t", "x", "t">>
KeyDocsSubA == <<"d", "o", "c", "s", "/", "s", "u", "b", "/", "a", ".", "t", "x", "t">>
KeyDocs2X == <<"d", "o", "c", "s", "2", "/", "x", ".", "t", "x", "t">>
KeyImagesC == <<"i", "m", "a", "g", "e", "s", "/", "c", ".", "p", "n", "g">>

PrefixDocs == <<"d", "o", "c", "s">>
PrefixDocsSlash == <<"d", "o", "c", "s", "/">>

GlobTxt == <<"*", ".", "t", "x", "t">>
GlobDeepTxt == <<"*", "*", "/", "*", ".", "t", "x", "t">>
GlobA == <<"a", ".", "*">>

\* bytes of the remote objects
ObjectBody(key) ==
    IF key = KeyDocsA THEN <<1, 2>>
    ELSE IF key = KeyDocsB THEN <<3>>
    ELSE IF key = KeyDocsSubA THEN <<4>>
    ELSE IF key = KeyDocs2X THEN <<5>>
    ELSE IF key = KeyImagesC THEN <<6>>
    ELSE <<>>

\* bucket contents, in the order the service lists keys (byte order)
Buckets ==
    { <<KeyDocsMarker, KeyDocsA, KeyDocsB, KeyImagesC>>,
      <<KeyDocsA, KeyDocsSubA, KeyDocs2X>> }

SourceFolders == {null, PrefixDocs, PrefixDocsSlash}

GlobLists == { <<GlobTxt>>, <<GlobDeepTxt>>, <<GlobTxt, GlobA>> }

EmptyDisk == <<>>

\* files a previous run may have left in the target folder
StaleFile(path) == (path :> <<9, 9, 9>>)

InitialDisks ==
    { EmptyDisk,
      StaleFile(PathJoin(targetFolder, KeyDocsA)),
      StaleFile(PathJoin(targetFolder, PathBasename(KeyDocsA))) }

-----------------------------------------------------------------------------
(* The storage service behind s3Client.listObjects *)

IndexOf(seq, x) ==
    IF \E i \in 1..Len(seq) : seq[i] = x
    THEN CHOOSE i \in 1..Len(seq) : seq[i] = x
    ELSE 0

\* the keys of the bucket under Prefix
ListedUnder(bkt, prefix) ==
    SelectSeq(bkt, LAMBDA k : StartsWith(k, prefix))

\* one response, as the loop of fetchAllObjectKeys reads it: the keys after
\* Marker, at most PageSize of them, and a NextMarker (the last key of the
\* response) exactly when the response is truncated
S3ListObjects(bkt, prefix, marker) ==
    LET listed == ListedUnder(bkt, prefix)
        first  == IF marker = null THEN 0 ELSE IndexOf(listed, marker)
        last   == Min(first + PageSize, Len(listed))
    IN  [ Contents   |-> SubSeq(listed, first + 1, last),
          NextMarker |-> IF last < Len(listed) THEN listed[last] ELSE null ]

-----------------------------------------------------------------------------
(* TaskOperations *)

NoResult == [kind |-> "none", dest |-> null, key |-> null]
TaskCompleted == [kind |-> "TaskCompleted", dest |-> null, key |-> null]
BucketNotExist == [kind |-> "BucketNotExist", dest |-> null, key |-> null]
FileExistsError(dest, key) == [kind |-> "FileExistsError", dest |-> dest, key |-> key]
StreamError(dest, key) == [kind |-> "StreamError", dest |-> dest, key |-> key]

\* fs.existsSync
ExistsSync(path) == path \in DOMAIN disk \/ path \in dirs

\* mutant: the catch block answers true as well
testBucketExists_CatchTrue(headOk) == TRUE

\* testBucketExists: true when headBucket answers, false when it throws
testBucketExists(headOk) == IF headOk THEN TRUE ELSE FALSE

\* mutant: the folder markers are not filtered out
KeepObjectKeys_NoFilter(keys, contents) == keys \o contents

\* fetchAllObjectKeys, the forEach of one response: push every key that does
\* not end with the folder marker
RECURSIVE KeepObjectKeys(_, _)
KeepObjectKeys(keys, contents) ==
    IF contents = <<>> THEN keys
    ELSE KeepObjectKeys(
             IF ~EndsWith(Head(contents), FolderMarker)
             THEN Append(keys, Head(contents))
             ELSE keys,
             Tail(contents))

\* mutant: the separator after the prefix is not skipped
SourcePrefixLen_NoSeparator(sourcePrefix) == Len(sourcePrefix)

\* matchObjectKeys: sourcePrefixLen
SourcePrefixLen(sourcePrefix) ==
    IF sourcePrefix # null THEN Len(sourcePrefix) + 1 ELSE 0

\* matchObjectKeys, the forEach over allKeys: test key.substring(sourcePrefixLen)
\* and push the key itself; acc holds matchedKeys and the names tested so far
RECURSIVE MatchLoop(_, _, _, _)
MatchLoop(keys, sourcePrefixLen, glob, acc) ==
    IF keys = <<>> THEN acc
    ELSE LET key       == Head(keys)
             keyToTest == Substring(key, sourcePrefixLen)
         IN  MatchLoop(Tail(keys), sourcePrefixLen, glob,
                 [ matchedKeys |-> IF Minimatch(keyToTest, glob)
                                   THEN Append(acc.matchedKeys, key)
                                   ELSE acc.matchedKeys,
                   tested      |-> Append(acc.tested, keyToTest) ])

matchObjectKeys(keys, sourcePrefix, glob) ==
    MatchLoop(keys, SourcePrefixLen(sourcePrefix), glob,
              [matchedKeys |-> <<>>, tested |-> <<>>])

\* mutant: flattenFolders is ignored
DestinationPath_NeverFlat(matchedKey) == PathJoin(targetFolder, matchedKey)

\* mutant: the key is taken relative to the source prefix
DestinationPath_Relative(matchedKey) ==
    IF flattenFolders
    THEN PathJoin(targetFolder, PathBasename(matchedKey))
    ELSE PathJoin(targetFolder,
                  Substring(matchedKey, IF sourceFolder # null
                                        THEN Len(sourceFolder) + 1 ELSE 0))

\* downloadFiles: dest of a matched key
DestinationPath(matchedKey) ==
    IF flattenFolders
    THEN PathJoin(targetFolder, PathBasename(matchedKey))
    ELSE PathJoin(targetFolder, matchedKey)

\* mutant: the overwrite flag tested the wrong way round
RefusesExisting_Inverted(dest) == ExistsSync(dest) /\ overwrite

\* downloadFiles: the existence check of dest; TRUE when the match is refused
RefusesExisting(dest) == ExistsSync(dest) /\ ~overwrite

\* a promise settles once: resolve and reject of a settled promise do nothing
Settle(promise, outcome) == IF promise = "pending" THEN outcome ELSE promise

\* mutant: waits until every promise has settled, whatever its outcome
PromiseAll_Settled(downloads) ==
    IF \A i \in 1..Len(downloads) : downloads[i].promise # "pending"
    THEN "resolved"
    ELSE "pending"

\* Promise.all(allDownloads)
PromiseAll(downloads) ==
    IF \E i \in 1..Len(downloads) : downloads[i].promise = "rejected"
    THEN "rejected"
    ELSE IF \A i \in 1..Len(downloads) : downloads[i].promise = "resolved"
    THEN "resolved"
    ELSE "pending"

\* downloadFile: the promise and the two streams of one fetch, started for
\* match number index of glob number glob.  opened: the write stream's open
\* has created/truncated dest; written: bytes this stream has written (its
\* own file position)
NewDownload(key, dest, glob, index) ==
    [ key |-> key, dest |-> dest, glob |-> glob, index |-> index, opened |-> FALSE,
      written |-> 0, st |-> "active", promise |-> "pending" ]

\* mutant: a key already queued is not queued again
QueueDownload_Dedup(downloads, d) ==
    IF \E i \in 1..Len(downloads) : downloads[i].key = d.key
    THEN downloads
    ELSE Append(downloads, d)

\* downloadFiles: allDownloads.push(this.downloadFile(params, dest))
QueueDownload(downloads, d) == Append(downloads, d)

\* a write at file position pos (0-based) of the stream's descriptor
RECURSIVE PadTo(_, _)
PadTo(content, n) == IF Len(content) >= n THEN content ELSE PadTo(Append(content, 0), n)

WriteAt(content, pos, byte) ==
    [ PadTo(content, pos + 1) EXCEPT ![pos + 1] = byte ]

\* mutant: an existing file is opened without being truncated
OpenForWrite_NoTruncate(d, path) ==
    [ q \in DOMAIN d \cup {path} |-> IF q \in DOMAIN d THEN d[q] ELSE <<>> ]

\* fs.open with flag "w": create or truncate
OpenForWrite(d, path) ==
    [ q \in DOMAIN d \cup {path} |-> IF q = path THEN <<>> ELSE d[q] ]

\* mutant: the loops of downloadFiles yield to the callbacks of the streams
EventLoopFree_Always == TRUE

\* callbacks of streams run only while no synchronous code or microtask of
\* execute() is running: while it awaits Promise.all, or after it has settled
EventLoopFree == pc \in {"awaitAll", "done", "failed"}

\* SdkUtils.roleArnFromName has not been called
IamIdle ==
    /\ roleName = null
    /\ rolePc = "idle"
    /\ getRoleRequests = <<>>
    /\ getRoleResponse = [kind |-> "none", arn |-> null]
    /\ roleResult = [kind |-> "none", value |-> null]

Init ==
    /\ IamIdle
    /\ bucket \in Buckets
    /\ sourceFolder \in SourceFolders
    /\ globExpressions \in GlobLists
    /\ flattenFolders \in BOOLEAN
    /\ overwrite \in BOOLEAN
    /\ initialDisk \in InitialDisks
    /\ disk = initialDisk
    /\ dirs \in { UNION { MkdirP(PathDirname(f)) : f \in DOMAIN disk } }
                \cup (IF disk = EmptyDisk THEN {MkdirP(targetFolder)} ELSE {})
    /\ pc = "start"
    /\ headResult = "none"
    /\ nextToken = null
    /\ allKeys = <<>>
    /\ markers = <<>>
    /\ pagesReturned = <<>>
    /\ listFailed = FALSE
    /\ gi = 0
    /\ matchedKeys = <<>>
    /\ tested = <<>>
    /\ mi = 0
    /\ allDownloads = <<>>
    /\ faults = 0
    /\ result = NoResult

\* execute: await this.createServiceClients()
CreateServiceClients ==
    /\ pc = "start"
    /\ pc' = "headBucket"
    /\ UNCHANGED <<iamVars, bucket, sourceFolder, globExpressions, flattenFolders,
                   overwrite, initialDisk, disk, dirs, headResult, nextToken, allKeys,
                   markers, pagesReturned, listFailed, gi, matchedKeys, tested,
                   mi, allDownloads, faults, result>>

\* execute: the bucket check; the request answers or throws
HeadBucket ==
    /\ pc = "headBucket"
    /\ \E headOk \in BOOLEAN :
        /\ headResult' = IF headOk THEN "ok" ELSE "error"
        /\ IF testBucketExists(headOk)
           THEN pc' = "downloadFiles" /\ result' = result
           ELSE pc' = "failed" /\ result' = BucketNotExist
    /\ UNCHANGED <<iamVars, bucket, sourceFolder, globExpressions, flattenFolders,
                   overwrite, initialDisk, disk, dirs, nextToken, allKeys, markers,
                   pagesReturned, listFailed, gi, matchedKeys, tested, mi,
                   allDownloads, faults>>

\* mutant: the target folder is not created
EnsureTargetFolder_NoMkdir ==
    /\ pc = "downloadFiles"
    /\ nextToken' = null
    /\ allKeys' = <<>>
    /\ pc' = "listing"
    /\ UNCHANGED <<iamVars, bucket, sourceFolder, globExpressions, flattenFolders,
                   overwrite, initialDisk, disk, dirs, headResult, markers, pagesReturned,
                   listFailed, gi, matchedKeys, tested, mi, allDownloads,
                   faults, result>>

\* downloadFiles up to the call of fetchAllObjectKeys: create the target folder
EnsureTargetFolder ==
    /\ pc = "downloadFiles"
    /\ dirs' = IF ~ExistsSync(targetFolder) THEN dirs \cup MkdirP(targetFolder) ELSE dirs
    /\ nextToken' = null
    /\ allKeys' = <<>>
    /\ pc' = "listing"
    /\ UNCHANGED <<iamVars, bucket, sourceFolder, globExpressions, flattenFolders,
                   overwrite, initialDisk, disk, headResult, markers, pagesReturned,
                   listFailed, gi, matchedKeys, tested, mi, allDownloads,
                   faults, result>>

\* mutant: the loop ends after its first turn
ListObjects_FirstPageOnly ==
    /\ pc = "listing"
    /\ markers' = Append(markers, nextToken)
    /\ \E ok \in BOOLEAN :
        IF ok
        THEN LET s3Data == S3ListObjects(bucket, sourceFolder, nextToken) IN
             /\ allKeys' = KeepObjectKeys(allKeys, s3Data.Contents)
             /\ pagesReturned' = Append(pagesReturned, s3Data.Contents)
             /\ listFailed' = listFailed
        ELSE /\ allKeys' = allKeys
             /\ pagesReturned' = pagesReturned
             /\ listFailed' = TRUE
    /\ nextToken' = null
    /\ pc' = "globs" /\ gi' = 1
    /\ UNCHANGED <<iamVars, bucket, sourceFolder, globExpressions, flattenFolders,
                   overwrite, initialDisk, disk, dirs, headResult, matchedKeys, tested, mi,
                   allDownloads, faults, result>>

\* mutant: the catch block throws the error on to execute
ListObjects_Rethrow ==
    /\ pc = "listing"
    /\ markers' = Append(markers, nextToken)
    /\ \E ok \in BOOLEAN :
        IF ok
        THEN LET s3Data == S3ListObjects(bucket, sourceFolder, nextToken) IN
             /\ nextToken' = s3Data.NextMarker
             /\ allKeys' = KeepObjectKeys(allKeys, s3Data.Contents)
             /\ pagesReturned' = Append(pagesReturned, s3Data.Contents)
             /\ listFailed' = listFailed
             /\ result' = result
             /\ IF nextToken' # null
                THEN pc' = "listing" /\ gi' = gi
                ELSE pc' = "globs" /\ gi' = 1
        ELSE /\ nextToken' = null
             /\ allKeys' = allKeys
             /\ pagesReturned' = pagesReturned
             /\ listFailed' = TRUE
             /\ result' = [kind |-> "ListingError", dest |-> null, key |-> null]
             /\ pc' = "failed" /\ gi' = gi
    /\ UNCHANGED <<iamVars, bucket, sourceFolder, globExpressions, flattenFolders,
                   overwrite, initialDisk, disk, dirs, headResult, matchedKeys, tested, mi,
                   allDownloads, faults>>

\* fetchAllObjectKeys: one turn of the do-while; the request answers or throws
ListObjects ==
    /\ pc = "listing"
    /\ markers' = Append(markers, nextToken)
    /\ \E ok \in BOOLEAN :
        IF ok
        THEN LET s3Data == S3ListObjects(bucket, sourceFolder, nextToken) IN
             /\ nextToken' = s3Data.NextMarker
             /\ allKeys' = KeepObjectKeys(allKeys, s3Data.Contents)
             /\ pagesReturned' = Append(pagesReturned, s3Data.Contents)
             /\ listFailed' = listFailed
        ELSE /\ nextToken' = null
             /\ allKeys' = allKeys
             /\ pagesReturned' = pagesReturned
             /\ listFailed' = TRUE
    /\ IF nextToken' # null
       THEN pc' = "listing" /\ gi' = gi
       ELSE pc' = "globs" /\ gi' = 1
    /\ UNCHANGED <<iamVars, bucket, sourceFolder, globExpressions, flattenFolders,
                   overwrite, initialDisk, disk, dirs, headResult, matchedKeys, tested, mi,
                   allDownloads, faults, result>>

\* downloadFiles: the head of the loop over the globs, matchObjectKeys
MatchGlob ==
    /\ pc = "globs"
    /\ gi <= Len(globExpressions)
    /\ LET m == matchObjectKeys(allKeys, sourceFolder, globExpressions[gi]) IN
        /\ matchedKeys' = m.matchedKeys
        /\ tested' = m.tested
        /\ IF m.matchedKeys = <<>>
           THEN pc' = "globs" /\ gi' = gi + 1 /\ mi' = 0
           ELSE pc' = "matches" /\ gi' = gi /\ mi' = 1
    /\ UNCHANGED <<iamVars, bucket, sourceFolder, globExpressions, flattenFolders,
                   overwrite, initialDisk, disk, dirs, headResult, nextToken, allKeys,
                   markers, pagesReturned, listFailed, allDownloads, faults,
                   result>>

\* downloadFiles: the body of the loop over matchedKeys for one key, and
\* downloadFile up to the creation of its streams
ProcessMatch ==
    /\ pc = "matches"
    /\ LET matchedKey == matchedKeys[mi]
           dest       == DestinationPath(matchedKey)
           dir        == PathDirname(dest)
       IN  IF RefusesExisting(dest)
           THEN /\ pc' = "failed"
                /\ result' = FileExistsError(dest, matchedKey)
                /\ UNCHANGED <<dirs, allDownloads, gi, mi>>
           ELSE /\ dirs' = IF ~ExistsSync(dir) THEN dirs \cup MkdirP(dir) ELSE dirs
                /\ allDownloads' = QueueDownload(allDownloads,
                                                NewDownload(matchedKey, dest, gi, mi))
                /\ result' = result
                /\ IF mi < Len(matchedKeys)
                   THEN pc' = "matches" /\ mi' = mi + 1 /\ gi' = gi
                   ELSE pc' = "globs" /\ mi' = 0 /\ gi' = gi + 1
    /\ UNCHANGED <<iamVars, bucket, sourceFolder, globExpressions, flattenFolders,
                   overwrite, initialDisk, disk, headResult, nextToken, allKeys, markers,
                   pagesReturned, listFailed, matchedKeys, tested, faults>>

\* mutant: a rejection is reported once no promise is pending any more
AfterSettle_WaitsForAll(downloads, f) ==
    IF pc = "awaitAll" /\ PromiseAll_Settled(downloads) = "resolved"
    THEN IF PromiseAll(downloads) = "rejected"
         THEN pc' = "failed" /\ result' = StreamError(downloads[f].dest, downloads[f].key)
         ELSE pc' = "done" /\ result' = TaskCompleted
    ELSE pc' = pc /\ result' = result

\* what execute() does once a promise of allDownloads has settled
AfterSettle(downloads, f) ==
    IF pc = "awaitAll" /\ PromiseAll(downloads) = "resolved"
    THEN pc' = "done" /\ result' = TaskCompleted
    ELSE IF pc = "awaitAll" /\ PromiseAll(downloads) = "rejected"
    THEN pc' = "failed" /\ result' = StreamError(downloads[f].dest, downloads[f].key)
    ELSE pc' = pc /\ result' = result

\* downloadFiles: return Promise.all(allDownloads), and execute's last line
\* when there is nothing to wait for
AwaitAllDownloads ==
    /\ pc = "globs"
    /\ gi > Len(globExpressions)
    /\ IF PromiseAll(allDownloads) = "resolved"
       THEN pc' = "done" /\ result' = TaskCompleted
       ELSE IF PromiseAll(allDownloads) = "rejected"
       THEN LET f == CHOOSE i \in 1..Len(allDownloads) :
                         allDownloads[i].promise = "rejected"
            IN  /\ pc' = "failed"
                /\ result' = StreamError(allDownloads[f].dest, allDownloads[f].key)
       ELSE pc' = "awaitAll" /\ result' = result
    /\ UNCHANGED <<iamVars, bucket, sourceFolder, globExpressions, flattenFolders,
                   overwrite, initialDisk, disk, dirs, headResult, nextToken, allKeys,
                   markers, pagesReturned, listFailed, gi, matchedKeys, tested,
                   mi, allDownloads, faults>>

\* fs.createWriteStream(dest): the open issued by the stream completes on the
\* thread pool, at any time after the stream was created
OpenFile(f) ==
    /\ ~allDownloads[f].opened
    /\ allDownloads[f].st \in {"active", "srcError"}
    /\ disk' = OpenForWrite(disk, allDownloads[f].dest)
    /\ allDownloads' = [allDownloads EXCEPT ![f].opened = TRUE]
    /\ UNCHANGED <<iamVars, bucket, sourceFolder, globExpressions, flattenFolders,
                   overwrite, initialDisk, dirs, pc, headResult, nextToken, allKeys,
                   markers, pagesReturned, listFailed, gi, matchedKeys, tested,
                   mi, faults, result>>

\* s3Stream.pipe(file): one chunk of the object arrives and is written
WriteChunk(f) ==
    /\ EventLoopFree
    /\ allDownloads[f].st = "active"
    /\ allDownloads[f].opened
    /\ allDownloads[f].written < Len(ObjectBody(allDownloads[f].key))
    /\ LET d == allDownloads[f] IN
        /\ disk' = [disk EXCEPT ![d.dest] =
                       WriteAt(disk[d.dest], d.written, ObjectBody(d.key)[d.written + 1])]
        /\ allDownloads' = [allDownloads EXCEPT ![f].written = d.written + 1]
    /\ UNCHANGED <<iamVars, bucket, sourceFolder, globExpressions, flattenFolders,
                   overwrite, initialDisk, dirs, pc, headResult, nextToken, allKeys,
                   markers, pagesReturned, listFailed, gi, matchedKeys, tested,
                   mi, faults, result>>

\* file.on('close', resolve): the source has ended, the file is flushed and closed
FileClose(f) ==
    /\ EventLoopFree
    /\ allDownloads[f].st = "active"
    /\ allDownloads[f].opened
    /\ allDownloads[f].written = Len(ObjectBody(allDownloads[f].key))
    /\ allDownloads' = [allDownloads EXCEPT
                           ![f].st = "closed",
                           ![f].promise = Settle(@, "resolved")]
    /\ AfterSettle(allDownloads', f)
    /\ UNCHANGED <<iamVars, bucket, sourceFolder, globExpressions, flattenFolders,
                   overwrite, initialDisk, disk, dirs, headResult, nextToken, allKeys,
                   markers, pagesReturned, listFailed, gi, matchedKeys, tested,
                   mi, faults>>

\* mutant: the error handler deletes the destination file
SourceError_Unlink(f) ==
    /\ EventLoopFree
    /\ faults < MaxFaults
    /\ allDownloads[f].st = "active"
    /\ faults' = faults + 1
    /\ allDownloads' = [allDownloads EXCEPT
                           ![f].st = "srcError",
                           ![f].promise = Settle(@, "rejected")]
    /\ disk' = [ q \in DOMAIN disk \ {allDownloads[f].dest} |-> disk[q] ]
    /\ AfterSettle(allDownloads', f)
    /\ UNCHANGED <<iamVars, bucket, sourceFolder, globExpressions, flattenFolders,
                   overwrite, initialDisk, dirs, headResult, nextToken, allKeys,
                   markers, pagesReturned, listFailed, gi, matchedKeys, tested,
                   mi>>

\* s3Stream.on('error', reject): the file is left open as it is
SourceError(f) ==
    /\ EventLoopFree
    /\ faults < MaxFaults
    /\ allDownloads[f].st = "active"
    /\ faults' = faults + 1
    /\ allDownloads' = [allDownloads EXCEPT
                           ![f].st = "srcError",
                           ![f].promise = Settle(@, "rejected")]
    /\ AfterSettle(allDownloads', f)
    /\ UNCHANGED <<iamVars, bucket, sourceFolder, globExpressions, flattenFolders,
                   overwrite, initialDisk, disk, dirs, headResult, nextToken, allKeys,
                   markers, pagesReturned, listFailed, gi, matchedKeys, tested,
                   mi>>

\* file.on('error', reject): the open or a write has failed
SinkError(f) ==
    /\ EventLoopFree
    /\ faults < MaxFaults
    /\ allDownloads[f].st = "active"
    /\ faults' = faults + 1
    /\ allDownloads' = [allDownloads EXCEPT
                           ![f].st = "sinkError",
                           ![f].promise = Settle(@, "rejected")]
    /\ AfterSettle(allDownloads', f)
    /\ UNCHANGED <<iamVars, bucket, sourceFolder, globExpressions, flattenFolders,
                   overwrite, initialDisk, disk, dirs, headResult, nextToken, allKeys,
                   markers, pagesReturned, listFailed, gi, matchedKeys, tested,
                   mi>>

\* file.on('close', resolve) of a write stream destroyed by its error: resolve
\* is called on the promise the error has rejected
FileCloseAfterError(f) ==
    /\ EventLoopFree
    /\ allDownloads[f].st = "sinkError"
    /\ allDownloads' = [allDownloads EXCEPT
                           ![f].st = "sinkErrorClosed",
                           ![f].promise = Settle(@, "resolved")]
    /\ AfterSettle(allDownloads', f)
    /\ UNCHANGED <<iamVars, bucket, sourceFolder, globExpressions, flattenFolders,
                   overwrite, initialDisk, disk, dirs, headResult, nextToken, allKeys,
                   markers, pagesReturned, listFailed, gi, matchedKeys, tested,
                   mi, faults>>

Next ==
    \/ CreateServiceClients
    \/ HeadBucket
    \/ EnsureTargetFolder
    \/ ListObjects
    \/ MatchGlob
    \/ ProcessMatch
    \/ AwaitAllDownloads
    \/ \E f \in 1..Len(allDownloads) : OpenFile(f)
    \/ \E f \in 1..Len(allDownloads) : WriteChunk(f)
    \/ \E f \in 1..Len(allDownloads) : FileClose(f)
    \/ \E f \in 1..Len(allDownloads) : SourceError(f)
    \/ \E f \in 1..Len(allDownloads) : SinkError(f)
    \/ \E f \in 1..Len(allDownloads) : FileCloseAfterError(f)

Spec == Init /\ [][Next]_vars

-----------------------------------------------------------------------------
(* SdkUtils.roleArnFromName (sdkutils.ts) *)

ArnPrefix == <<"a", "r", "n", ":">>

RoleChars == {"a", "r", "n", ":"}

RoleNames == UNION { [1..n -> RoleChars] : n \in 0..MaxRoleNameLen }

\* the ARN the identity service holds for a role name
RoleArnOf(name) == ArnPrefix \o <<"r", "o", "l", "e", "/">> \o name

\* mutant: 'arn:' is looked for anywhere in the name
IsArn_Includes(name) ==
    \E i \in 0..Len(name) : StartsWith(Substring(name, i), ArnPrefix)

\* roleName.startsWith('arn:')
IsArn(name) == StartsWith(name, ArnPrefix)

\* execute() is not running: the task's state is that of a fresh TaskOperations
S3Idle ==
    /\ bucket = <<>>
    /\ sourceFolder = null
    /\ globExpressions = <<>>
    /\ flattenFolders = FALSE
    /\ overwrite = FALSE
    /\ initialDisk = EmptyDisk
    /\ disk = EmptyDisk
    /\ dirs = {}
    /\ pc = "start"
    /\ headResult = "none"
    /\ nextToken = null
    /\ allKeys = <<>>
    /\ markers = <<>>
    /\ pagesReturned = <<>>
    /\ listFailed = FALSE
    /\ gi = 0
    /\ matchedKeys = <<>>
    /\ tested = <<>>
    /\ mi = 0
    /\ allDownloads = <<>>
    /\ faults = 0
    /\ result = NoResult

InitRole ==
    /\ S3Idle
    /\ roleName \in RoleNames
    /\ rolePc = "called"
    /\ getRoleRequests = <<>>
    /\ getRoleResponse = [kind |-> "none", arn |-> null]
    /\ roleResult = [kind |-> "none", value |-> null]

\* roleArnFromName up to its return or to the await of getRole
RoleArnFromName ==
    /\ rolePc = "called"
    /\ IF IsArn(roleName)
       THEN /\ rolePc' = "settled"
            /\ roleResult' = [kind |-> "returned", value |-> roleName]
            /\ getRoleRequests' = getRoleRequests
       ELSE /\ rolePc' = "getRole"
            /\ roleResult' = roleResult
            /\ getRoleRequests' = Append(getRoleRequests, roleName)
    /\ UNCHANGED <<s3Vars, roleName, getRoleResponse>>

\* roleArnFromName after the await: the request answers or throws
GetRoleSettles ==
    /\ rolePc = "getRole"
    /\ \E ok \in BOOLEAN :
        IF ok
        THEN /\ getRoleResponse' = [kind |-> "ok", arn |-> RoleArnOf(getRoleRequests[1])]
             /\ roleResult' = [kind |-> "returned", value |-> getRoleResponse'.arn]
        ELSE /\ getRoleResponse' = [kind |-> "error", arn |-> null]
             /\ roleResult' = [kind |-> "error", value |-> null]
    /\ rolePc' = "settled"
    /\ UNCHANGED <<s3Vars, roleName, getRoleRequests>>

NextRole ==
    \/ RoleArnFromName
    \/ GetRoleSettles

SpecRole == InitRole /\ [][NextRole]_vars

-----------------------------------------------------------------------------
(* Properties *)

Downloads == 1..Len(allDownloads)

\* the step of ProcessMatch: the only one that leaves the current match
LeavesMatch == pc = "matches" /\ (pc' # pc \/ mi' # mi)

Failed(d) == d.st \in {"srcError", "sinkError", "sinkErrorClosed"}

\* C1: when the destination of a match exists as it is checked and overwrite
\* is off, the run fails with the FileExistsError of that destination and
\* key, downloadFile is not called for the match (no stream is created, the
\* disk is not touched by the step), and no download is started afterwards.
C1_ExistingDestRefused ==
    [][ /\ ( LeavesMatch
             /\ ExistsSync(DestinationPath(matchedKeys[mi]))
             /\ ~overwrite )
           => /\ pc' = "failed"
              /\ result' = FileExistsError(DestinationPath(matchedKeys[mi]),
                                           matchedKeys[mi])
              /\ allDownloads' = allDownloads
              /\ disk' = disk
        /\ pc = "failed" => Len(allDownloads') = Len(allDownloads)
      ]_vars

C1_Witness ==
    /\ result.kind = "FileExistsError"
    /\ ~overwrite
    /\ result.key = matchedKeys[mi]
    /\ ExistsSync(result.dest)
    /\ ~\E f \in Downloads : allDownloads[f].glob = gi /\ allDownloads[f].index = mi

\* C2: execute has completed only if every queued fetch has had its file
\* closed with its promise resolved and none has failed; as soon as a queued
\* fetch has failed, execute has failed.
C2_CompletionAwaitsAllFetches ==
    /\ (pc = "done") = (result = TaskCompleted)
    /\ result = TaskCompleted =>
          \A f \in Downloads :
              /\ allDownloads[f].st = "closed"
              /\ allDownloads[f].promise = "resolved"
              /\ allDownloads[f].written = Len(ObjectBody(allDownloads[f].key))
    /\ (\E f \in Downloads : Failed(allDownloads[f])) =>
          /\ pc = "failed"
          /\ result.kind \in {"StreamError", "FileExistsError"}

C2_Witness ==
    /\ result = TaskCompleted
    /\ Len(allDownloads) >= 2
    /\ \A f \in Downloads : allDownloads[f].st = "closed"

\* C3: when headBucket fails, execute has failed with BucketNotExist and no
\* listing request and no fetch has been (or will be) started.
C3_BucketCheckAbortsFirst ==
    headResult = "error" =>
        /\ pc = "failed"
        /\ result = BucketNotExist
        /\ markers = <<>>
        /\ pagesReturned = <<>>
        /\ allDownloads = <<>>

C3_Witness ==
    /\ headResult = "error"
    /\ result = BucketNotExist

\* C4: when a listObjects request has failed, the listing has failed with a
\* listing error (so execute has failed with it).
C4_ListingErrorSurfaces ==
    listFailed => (pc = "failed" /\ result.kind = "ListingError")

\* every key of the pages received so far, in page order
RECURSIVE Concat(_)
Concat(pages) == IF pages = <<>> THEN <<>> ELSE Head(pages) \o Concat(Tail(pages))

IsFolderMarkerKey(k) ==
    \E pre \in 0..Len(k) : k = SubSeq(k, 1, pre) \o FolderMarker

\* C5: the keys gathered by fetchAllObjectKeys are exactly the keys of the
\* pages received that do not end with _$folder$, in page order; no key
\* ending with _$folder$ is among the keys handed to glob matching.
C5_ListingDropsOnlyFolderMarkers ==
    /\ allKeys = SelectSeq(Concat(pagesReturned), LAMBDA k : ~IsFolderMarkerKey(k))
    /\ \A i \in 1..Len(allKeys) : ~IsFolderMarkerKey(allKeys[i])
    /\ Len(tested) \in {0, Len(allKeys)}

C5_Witness ==
    /\ pc = "matches"
    /\ Len(pagesReturned) >= 2
    /\ \E i \in 1..Len(pagesReturned) :
          \E j \in 1..Len(pagesReturned[i]) : IsFolderMarkerKey(pagesReturned[i][j])
    /\ Len(allKeys) = Len(Concat(pagesReturned)) - 1

\* the glob whose matches matchedKeys holds
MatchedGlob ==
    IF pc = "matches" \/ result.kind = "FileExistsError" THEN gi ELSE gi - 1

\* the name of key k relative to the source prefix: k without its first
\* len(sourceFolder) + 1 characters, or k itself without a source prefix
StrippedName(k) ==
    IF sourceFolder = <<>> THEN k
    ELSE IF Len(k) <= Len(sourceFolder) + 1 THEN <<>>
    ELSE [ i \in 1..(Len(k) - Len(sourceFolder) - 1) |-> k[i + Len(sourceFolder) + 1] ]

\* C6: matchedKeys holds, in input order and unstripped, exactly the keys of
\* allKeys whose stripped name satisfies the glob, and every key has been
\* tested once, in order.
C6_MatchIsFilterOfStrippedNames ==
    (gi >= 1 /\ MatchedGlob >= 1) =>
        /\ matchedKeys =
              SelectSeq(allKeys,
                        LAMBDA k : Minimatch(StrippedName(k), globExpressions[MatchedGlob]))
        /\ tested = [ i \in 1..Len(allKeys) |-> StrippedName(allKeys[i]) ]

C6_Witness ==
    /\ pc = "matches"
    /\ sourceFolder = PrefixDocs
    /\ globExpressions[gi] = GlobTxt
    /\ matchedKeys = <<KeyDocsA>>
    /\ allKeys = <<KeyDocsA, KeyDocsSubA, KeyDocs2X>>

\* the characters of k after its last separator
LastSegment(k) ==
    LET seps == { i \in 1..Len(k) : k[i] = "/" }
        from == IF seps = {} THEN 0 ELSE CHOOSE i \in seps : \A j \in seps : j <= i
    IN  [ i \in 1..(Len(k) - from) |-> k[i + from] ]

\* C7: the destination of every fetch is a function of its key, the target
\* folder and the flatten flag: the target folder joined with the last
\* segment of the key when flattening, with the whole key as listed otherwise.
C7_DestinationOfKey ==
    /\ \A f \in Downloads :
          allDownloads[f].dest =
              IF flattenFolders
              THEN targetFolder \o <<"/">> \o LastSegment(allDownloads[f].key)
              ELSE targetFolder \o <<"/">> \o allDownloads[f].key
    /\ \A f, g \in Downloads :
          allDownloads[f].key = allDownloads[g].key
              => allDownloads[f].dest = allDownloads[g].dest

C7_Witness ==
    /\ flattenFolders
    /\ sourceFolder = PrefixDocs
    /\ \E f \in Downloads :
          /\ allDownloads[f].key = KeyDocsSubA
          /\ allDownloads[f].dest = targetFolder \o <<"/", "a", ".", "t", "x", "t">>

\* the end-to-end scenario: bucket {docs/a.txt, docs/b.txt, docs/_$folder$,
\* images/c.png}, prefix docs, glob *.txt, no flattening, no overwriting, an
\* empty target folder
EndToEnd ==
    /\ bucket = <<KeyDocsMarker, KeyDocsA, KeyDocsB, KeyImagesC>>
    /\ sourceFolder = PrefixDocs
    /\ globExpressions = <<GlobTxt>>
    /\ ~flattenFolders
    /\ ~overwrite
    /\ initialDisk = EmptyDisk

\* a run in which every request to the storage service and every stream has
\* succeeded
SuccessfulRun == result = TaskCompleted /\ ~listFailed

TargetATxt == targetFolder \o <<"/", "a", ".", "t", "x", "t">>
TargetBTxt == targetFolder \o <<"/", "b", ".", "t", "x", "t">>
TargetDocsATxt == targetFolder \o <<"/", "d", "o", "c", "s", "/", "a", ".", "t", "x", "t">>
TargetDocsBTxt == targetFolder \o <<"/", "d", "o", "c", "s", "/", "b", ".", "t", "x", "t">>

FetchedKeys == { allDownloads[f].key : f \in Downloads }

\* C8 as stated: the successful end-to-end run writes exactly target/a.txt
\* and target/b.txt, with the objects' bytes, and fetches neither
\* docs/_$folder$ nor images/c.png.
C8_EndToEndAsStated ==
    (EndToEnd /\ SuccessfulRun) =>
        /\ DOMAIN disk = {TargetATxt, TargetBTxt}
        /\ disk[TargetATxt] = ObjectBody(KeyDocsA)
        /\ disk[TargetBTxt] = ObjectBody(KeyDocsB)
        /\ FetchedKeys \cap {KeyDocsMarker, KeyImagesC} = {}

\* C8, amended: the successful end-to-end run writes exactly
\* target/docs/a.txt and target/docs/b.txt (the key as listed, prefix
\* included), with the objects' bytes, by one fetch each, and fetches neither
\* docs/_$folder$ nor images/c.png.
C8_EndToEndKeepsPrefix ==
    (EndToEnd /\ SuccessfulRun) =>
        /\ DOMAIN disk = {TargetDocsATxt, TargetDocsBTxt}
        /\ disk[TargetDocsATxt] = ObjectBody(KeyDocsA)
        /\ disk[TargetDocsBTxt] = ObjectBody(KeyDocsB)
        /\ Len(allDownloads) = 2
        /\ FetchedKeys = {KeyDocsA, KeyDocsB}

C8_Witness ==
    /\ EndToEnd
    /\ SuccessfulRun
    /\ Len(pagesReturned) = 2
    /\ DOMAIN disk = {TargetDocsATxt, TargetDocsBTxt}

\* the downloads whose destination is that of download f
SameDest(f) == { g \in Downloads : allDownloads[g].dest = allDownloads[f].dest }

\* C9 as stated: with overwrite on, no run fails on an existing destination,
\* and after a completed run every destination holds the bytes of the object
\* of every fetch that targeted it.
C9_OverwriteAsStated ==
    overwrite =>
        /\ result.kind # "FileExistsError"
        /\ result = TaskCompleted =>
              \A f \in Downloads :
                  disk[allDownloads[f].dest] = ObjectBody(allDownloads[f].key)

\* C9, amended: with overwrite on, no run fails on an existing destination,
\* and after a completed run every destination targeted by fetches of one
\* key only (one fetch, or several fetches of that key) holds the bytes of
\* that object.
C9_OverwriteSingleObject ==
    overwrite =>
        /\ result.kind # "FileExistsError"
        /\ result = TaskCompleted =>
              \A f \in Downloads :
                  (\A g \in SameDest(f) : allDownloads[g].key = allDownloads[f].key)
                      => disk[allDownloads[f].dest] = ObjectBody(allDownloads[f].key)

C9_Witness ==
    /\ overwrite
    /\ result = TaskCompleted
    /\ \E f \in Downloads :
          /\ allDownloads[f].dest \in DOMAIN initialDisk
          /\ Cardinality(SameDest(f)) = 2
          /\ \A g \in SameDest(f) : allDownloads[g].key = allDownloads[f].key
          /\ disk[allDownloads[f].dest] = ObjectBody(allDownloads[f].key)
          /\ disk[allDownloads[f].dest] # initialDisk[allDownloads[f].dest]

\* the number of configured patterns that match key k, and of fetches of k
PatternsMatching(k) ==
    Cardinality({ g \in 1..Len(globExpressions) :
                    Minimatch(StrippedName(k), globExpressions[g]) })

FetchesOf(k) == Cardinality({ f \in Downloads : allDownloads[f].key = k })

ListedKeys == { allKeys[i] : i \in 1..Len(allKeys) }

\* downloadFiles has left its loops: by reaching Promise.all, or by throwing
LoopsLeft == headResult = "ok" /\ pc \in {"awaitAll", "done", "failed"}

\* downloadFiles has gone through every glob and reached Promise.all
LoopsCompleted == LoopsLeft /\ result.kind # "FileExistsError"

\* C10 as stated, for runs that start from an empty target folder: once
\* downloadFiles has left its loops, every listed key has been fetched once
\* per configured pattern that matches it.
C10_OncePerPatternAsStated ==
    (initialDisk = EmptyDisk /\ LoopsLeft) =>
        \A k \in ListedKeys : FetchesOf(k) = PatternsMatching(k)

\* C10, amended: in every run in which downloadFiles goes through every glob
\* (no FileExistsError is raised), every listed key has been fetched once per
\* configured pattern that matches it, each time to the same destination,
\* and the fetches were queued in the configured order of the globs.
C10_OncePerPatternWhenLoopsComplete ==
    LoopsCompleted =>
        /\ \A k \in ListedKeys : FetchesOf(k) = PatternsMatching(k)
        /\ \A f, g \in Downloads :
              /\ allDownloads[f].key = allDownloads[g].key
                    => allDownloads[f].dest = allDownloads[g].dest
              /\ f <= g => allDownloads[f].glob <= allDownloads[g].glob

C10_Witness ==
    /\ LoopsCompleted
    /\ ~overwrite
    /\ FetchesOf(KeyDocsA) = 2
    /\ PatternsMatching(KeyDocsA) = 2
    /\ FetchesOf(KeyDocsB) = 1

\* the step in which downloadFiles throws FileExistsError
ThrowsFileExists == pc = "matches" /\ pc' = "failed" /\ result'.kind = "FileExistsError"

\* C11 as stated: when the run has failed with FileExistsError, no fetch has
\* been started in it and no destination file has been created or written
\* (downloads are never queued after the failure, so this is the state of
\* the moment of the failure).
C11_NoPartialWorkAsStated ==
    result.kind = "FileExistsError" =>
        /\ allDownloads = <<>>
        /\ disk = initialDisk

\* C11, amended: at the moment downloadFiles throws FileExistsError no fetch
\* has been started for the refused match or a later one, and no byte has
\* been written and no promise settled; the fetches of the earlier matches
\* have been started, and their files may have been created, empty, while
\* the files that were there before the run are untouched.
C11_CollisionLeavesEarlierFetches ==
    [][ ThrowsFileExists =>
          /\ allDownloads' = allDownloads
          /\ \A f \in Downloads :
                /\ allDownloads[f].glob < gi
                     \/ (allDownloads[f].glob = gi /\ allDownloads[f].index < mi)
                /\ allDownloads[f].written = 0
                /\ allDownloads[f].promise = "pending"
          /\ disk' = disk
          /\ \A path \in DOMAIN disk :
                IF path \in DOMAIN initialDisk
                THEN disk[path] = initialDisk[path]
                ELSE /\ disk[path] = <<>>
                     /\ \E f \in Downloads :
                           allDownloads[f].dest = path /\ allDownloads[f].opened
      ]_vars

C11_Witness ==
    /\ result.kind = "FileExistsError"
    /\ initialDisk = EmptyDisk
    /\ Len(allDownloads) = 2
    /\ \A f \in Downloads : allDownloads[f].written = 0 /\ allDownloads[f].promise = "pending"
    /\ \E f \in Downloads : allDownloads[f].opened /\ allDownloads[f].dest = result.dest
    /\ \E f \in Downloads : ~allDownloads[f].opened

\* the first four characters of the name are a, r, n and :
HasArnPrefix(name) ==
    /\ Len(name) >= 4
    /\ name[1] = "a" /\ name[2] = "r" /\ name[3] = "n" /\ name[4] = ":"

\* C12: a name that starts with 'arn:' is returned unchanged without any
\* getRole request; for any other name exactly one getRole request is issued,
\* for that name, and the outcome is the ARN of its response, or an error
\* when the request fails.
C12_RoleArnFromName ==
    /\ HasArnPrefix(roleName) =>
          /\ getRoleRequests = <<>>
          /\ rolePc = "settled" => roleResult = [kind |-> "returned", value |-> roleName]
    /\ (~HasArnPrefix(roleName) /\ rolePc # "called") =>
          /\ getRoleRequests = <<roleName>>
          /\ (rolePc = "settled") = (getRoleResponse.kind # "none")
          /\ getRoleResponse.kind = "ok" =>
                roleResult = [kind |-> "returned", value |-> getRoleResponse.arn]
          /\ getRoleResponse.kind = "error" => roleResult.kind = "error"
          /\ getRoleResponse.kind = "none" => roleResult.kind = "none"

C12_Witness ==
    /\ rolePc = "settled"
    /\ roleName = <<"a", "r", "n", ":", "a">>
    /\ roleResult = [kind |-> "returned", value |-> roleName]
    /\ getRoleRequests = <<>>

\* the step in which the promise of fetch f is rejected
Rejects(f) ==
    /\ f \in Downloads
    /\ allDownloads[f].promise = "pending"
    /\ allDownloads'[f].promise = "rejected"

\* a fetch that is neither finished nor failed, with its file open
Running(d) == d.st = "active" /\ d.opened

\* C13: the step in which a fetch fails makes the operation fail with the
\* error of that fetch, whatever the state of the other fetches, unless the
\* operation has failed before, and then the earlier error stays; that step
\* leaves every other fetch and every file as they are; after the failure a
\* running fetch can still write or close; no step ever removes a file.
C13_FailureDoesNotStopSiblings ==
    /\ [][ \A f \in Downloads : Rejects(f) =>
              /\ IF result = NoResult
                 THEN /\ pc' = "failed"
                      /\ result' = StreamError(allDownloads[f].dest, allDownloads[f].key)
                 ELSE result' = result
              /\ \A g \in Downloads \ {f} : allDownloads'[g] = allDownloads[g]
              /\ disk' = disk
         ]_vars
    /\ [][ result # NoResult => result' = result ]_vars
    /\ [][ DOMAIN disk \subseteq DOMAIN disk' ]_vars
    /\ [](pc = "failed" =>
            \A g \in Downloads : Running(allDownloads[g]) =>
                ENABLED (WriteChunk(g) \/ FileClose(g)))

\* a fetch has failed and was reported while a sibling was unfinished; that
\* sibling has since written its whole object and closed
C13_Witness ==
    /\ pc = "failed"
    /\ result.kind = "StreamError"
    /\ \E f, g \in Downloads :
          /\ allDownloads[f].st = "srcError"
          /\ allDownloads[f].dest = result.dest
          /\ allDownloads[f].written = 0
          /\ allDownloads[g].st = "closed"
          /\ allDownloads[g].promise = "resolved"
          /\ allDownloads[g].dest # allDownloads[f].dest
          /\ disk[allDownloads[g].dest] = ObjectBody(allDownloads[g].key)
    /\ \E h \in Downloads : Running(allDownloads[h])

\* C14 as stated: at no time are two started fetches writing to the same
\* destination path.
C14_UniqueDestinationsAsStated ==
    \A f, g \in Downloads :
        (f # g /\ Running(allDownloads[f]) /\ Running(allDownloads[g]))
            => allDownloads[f].dest # allDownloads[g].dest

\* C14, amended: two started fetches have the same destination path exactly
\* when they fetch the same key (matched by more than one glob) or, with
\* flatten enabled, keys with the same final segment; every other pair of
\* fetches has different destination paths.
C14_SharedDestinations ==
    \A f, g \in Downloads : f # g =>
        ( allDownloads[f].dest = allDownloads[g].dest
          <=> \/ allDownloads[f].key = allDownloads[g].key
              \/ /\ flattenFolders
                 /\ LastSegment(allDownloads[f].key) = LastSegment(allDownloads[g].key) )

\* two fetches of different keys are writing to one flattened path at once
C14_Witness ==
    \E f, g \in Downloads :
        /\ allDownloads[f].key # allDownloads[g].key
        /\ allDownloads[f].dest = allDownloads[g].dest
        /\ Running(allDownloads[f]) /\ allDownloads[f].written = 1
        /\ Running(allDownloads[g]) /\ allDownloads[g].written = 1
        /\ \E h \in Downloads : allDownloads[h].dest # allDownloads[f].dest

\* the step in which a listObjects request throws
ListingThrows == ~listFailed /\ listFailed'

\* C15: the step in which a listing request throws ends the pagination and
\* hands the keys gathered so far to glob matching, with no error reported;
\* afterwards no further request is made and the keys stay as they are;
\* whatever is fetched is among those keys, and the run ends like a run
\* whose listing did not fail: completed, or failed by a later step.
C15_ListingErrorSwallowed ==
    /\ [][ ListingThrows =>
              /\ pc = "listing" /\ pc' = "globs" /\ gi' = 1
              /\ allKeys' = allKeys
              /\ pagesReturned' = pagesReturned
              /\ Len(markers') = Len(pagesReturned) + 1
              /\ result' = result /\ result = NoResult
         ]_vars
    /\ [][ listFailed => (allKeys' = allKeys /\ markers' = markers /\ listFailed') ]_vars
    /\ [](listFailed =>
            /\ pc \in {"globs", "matches", "awaitAll", "done", "failed"}
            /\ result.kind \in {"none", "TaskCompleted", "FileExistsError", "StreamError"}
            /\ FetchedKeys \subseteq ListedKeys
            /\ pc = "done" => result = TaskCompleted)

\* the second listing request threw; the keys of the first page were matched
\* and fetched, and execute has completed
C15_Witness ==
    /\ listFailed
    /\ Len(markers) = 2
    /\ Len(pagesReturned) = 1
    /\ allKeys # <<>>
    /\ result = TaskCompleted
    /\ FetchedKeys # {}
    /\ \A f \in Downloads : allDownloads[f].st = "closed"

\* the first listing request threw: nothing to fetch, and execute has completed
C15_WitnessNoKeys ==
    /\ listFailed
    /\ Len(markers) = 1
    /\ allKeys = <<>>
    /\ allDownloads = <<>>
    /\ result = TaskCompleted

\* the step that issues a listObjects request
ListingRequest == markers' # markers

\* C16: every listing request is made with the target folder in place and
\* before any glob was matched or any fetch started; the listing is entered
\* once, from the start of downloadFiles, and only its first request carries
\* no marker; glob matching starts in the step in which the last request
\* returns; the globs are taken one after the other in configured order and
\* the fetches are queued in that order, each for a key its glob matches.
C16_StepsInOrder ==
    /\ [][ ListingRequest =>
              /\ pc = "listing"
              /\ targetFolder \in dirs
              /\ gi = 0 /\ tested = <<>> /\ matchedKeys = <<>>
              /\ allDownloads = <<>> /\ disk = initialDisk
         ]_vars
    /\ [][ (pc' = "listing" /\ pc # "listing") =>
              (pc = "downloadFiles" /\ markers = <<>> /\ targetFolder \in dirs') ]_vars
    /\ [][ (pc' = "downloadFiles" /\ pc # "downloadFiles") => pc = "headBucket" ]_vars
    /\ [](\A i \in 1..Len(markers) : markers[i] = null => i = 1)
    /\ [][ gi' # gi =>
              /\ gi' = gi + 1
              /\ (gi = 0) = (pc = "listing")
              /\ gi = 0 => (ListingRequest /\ nextToken' = null /\ pc' = "globs")
         ]_vars
    /\ [][ allDownloads' # allDownloads /\ Len(allDownloads') > Len(allDownloads) =>
              /\ pc = "matches"
              /\ allDownloads'[Len(allDownloads')].glob = gi
         ]_vars
    /\ [](\A f, g \in Downloads :
            /\ f <= g => allDownloads[f].glob <= allDownloads[g].glob
            /\ allDownloads[f].glob \in 1..Len(globExpressions)
            /\ Minimatch(StrippedName(allDownloads[f].key),
                         globExpressions[allDownloads[f].glob]))

\* the target folder was absent; the listing took two requests, then both
\* globs were matched and their fetches queued in order
C16_Witness ==
    /\ initialDisk = EmptyDisk
    /\ targetFolder \in dirs
    /\ Len(markers) = 2
    /\ ~listFailed
    /\ Len(globExpressions) = 2
    /\ gi = 3
    /\ Len(allDownloads) = 3
    /\ allDownloads[1].glob = 1
    /\ allDownloads[3].glob = 2

\* the token of the response to the request made with marker m
TokenAfter(m) == S3ListObjects(bucket, sourceFolder, m).NextMarker

\* the number of pages of the listing under the source prefix
PageCount ==
    LET n == Len(ListedUnder(bucket, sourceFolder))
    IN  IF n = 0 THEN 1 ELSE (n + PageSize - 1) \div PageSize

\* fetchAllObjectKeys has returned
ListingReturned == gi >= 1

\* C17: the first listing request carries no token and every later one the
\* token of the response before it; the loop goes on exactly while the last
\* response carried a token; no page is requested twice and there are never
\* more requests than pages; when the loop has ended and no request threw,
\* every page was requested once and all listed keys were received.
C17_PaginationFollowsTokens ==
    /\ markers # <<>> => markers[1] = null
    /\ \A i \in 2..Len(markers) :
          markers[i] # null /\ markers[i] = TokenAfter(markers[i - 1])
    /\ \A i, j \in 1..Len(markers) : markers[i] = markers[j] => i = j
    /\ Len(markers) <= PageCount
    /\ (pc = "listing" /\ markers # <<>>) =>
          (nextToken = TokenAfter(markers[Len(markers)]) /\ nextToken # null)
    /\ ListingReturned => (markers # <<>> /\ nextToken = null)
    /\ (ListingReturned /\ ~listFailed) =>
          /\ TokenAfter(markers[Len(markers)]) = null
          /\ Len(markers) = PageCount
          /\ Len(pagesReturned) = PageCount
          /\ Concat(pagesReturned) = ListedUnder(bucket, sourceFolder)

\* a listing of two pages: the second request carried the token of the
\* first response, and the second response carried none
C17_Witness ==
    /\ ListingReturned
    /\ ~listFailed
    /\ PageCount = 2
    /\ markers = <<null, pagesReturned[1][Len(pagesReturned[1])]>>
    /\ Len(pagesReturned) = 2
    /\ pagesReturned[2] # <<>>

\* C18: with a source prefix, every listed key is the prefix, one separator
\* and the name that was tested against the glob, in that order.
C18_StripsPrefixAndSeparator ==
    (sourceFolder # null /\ tested # <<>>) =>
        \A i \in 1..Len(tested) :
            allKeys[i] = sourceFolder \o <<"/">> \o tested[i]

\* fetch f has failed with an error of its source stream
SourceFailed(f) == allDownloads[f].st = "srcError"

\* C19 as stated: once a fetch has failed with a source-stream error its
\* destination exists on disk, so that the existence check of downloadFiles
\* refuses that path when overwrite is disabled.
C19_FailedFetchLeavesFileAsStated ==
    \A f \in Downloads : SourceFailed(f) =>
        /\ allDownloads[f].dest \in DOMAIN disk
        /\ ~overwrite => RefusesExisting(allDownloads[f].dest)

\* C19, amended: the destination is created or truncated by the open of the
\* write stream, which completes after the fetch was started and before any
\* byte is written, possibly after a source-stream error; from the open on
\* the file exists whatever happens to the fetch, and the existence check
\* refuses its path when overwrite is disabled; a fetch that has failed
\* writes no more, and its file, when no other fetch shares it, holds the
\* bytes received before the error.
C19_FailedFetchLeavesOpenedFile ==
    /\ [][ \A f \in Downloads :
              (f \in 1..Len(allDownloads') /\ allDownloads'[f].written > allDownloads[f].written)
                  => (allDownloads[f].opened /\ allDownloads[f].st = "active")
         ]_vars
    /\ [][ \A f \in Downloads :
              (~allDownloads[f].opened /\ allDownloads'[f].opened) =>
                  /\ allDownloads[f].written = 0
                  /\ disk'[allDownloads[f].dest] = <<>>
         ]_vars
    /\ [](\A f \in Downloads :
            /\ allDownloads[f].opened =>
                  /\ allDownloads[f].dest \in DOMAIN disk
                  /\ RefusesExisting(allDownloads[f].dest) = ~overwrite
            /\ (SourceFailed(f) /\ ~allDownloads[f].opened) =>
                  /\ allDownloads[f].written = 0
                  /\ ENABLED OpenFile(f)
            /\ (SourceFailed(f) /\ allDownloads[f].opened /\ SameDest(f) = {f}) =>
                  disk[allDownloads[f].dest] =
                      SubSeq(ObjectBody(allDownloads[f].key), 1, allDownloads[f].written))
    /\ [][ DOMAIN disk \subseteq DOMAIN disk'
           /\ \A f \in Downloads :
                 SourceFailed(f) =>
                    (SourceFailed(f)' /\ allDownloads'[f].written = allDownloads[f].written)
         ]_vars

\* a fetch failed after its first byte: the file holds that byte only, the
\* run has failed, and with overwrite disabled the path is now refused
C19_Witness ==
    /\ ~overwrite
    /\ pc = "failed"
    /\ result.kind = "StreamError"
    /\ \E f \in Downloads :
          /\ SourceFailed(f)
          /\ allDownloads[f].opened
          /\ allDownloads[f].dest = result.dest
          /\ allDownloads[f].dest \notin DOMAIN initialDisk
          /\ allDownloads[f].written = 1
          /\ disk[allDownloads[f].dest] = <<1>>
          /\ Len(ObjectBody(allDownloads[f].key)) = 2
          /\ RefusesExisting(allDownloads[f].dest)

====
